---------------------------- MODULE Spec2Model ----------------------------
(***************************************************************************)
(* The video re-encoding pipeline of SmartClip (utils/videoProcessor):     *)
(* compressVideo and cutVideo, as the event-driven state machines their    *)
(* nested handlers form on the browser's event loop.  One run is one call  *)
(* of either function; run[r] holds everything the call's closure owns     *)
(* (the video element, the object URL, the canvas, the MediaRecorder, the  *)
(* chunk list, the promise) and what its caller observed (the progress     *)
(* values, the settling calls).                                            *)
(*                                                                         *)
(* Time is counted in whole units; the media position only moves forward   *)
(* while the element is playing.  The browser is the environment: it       *)
(* fires loadedmetadata, loadeddata, seeked, ended and error, accepts or   *)
(* refuses play(), delivers encoder chunks and the recorder's stop event.  *)
(***************************************************************************)
EXTENDS Integers, Sequences, FiniteSets

\* ------------------------------------------------------------------ bounds
\* the longest asset and the latest range bound, in units of time
MaxTime == 3
\* frames one run may draw, and chunks its encoder may deliver before stop()
MaxTicks == 3
MaxChunks == 1
\* the same two where two runs are interleaved
PairTicks == 2
PairChunks == 0
\* the largest intrinsic width and height of a source video, in pixels
MaxVideoWidth == 8
MaxVideoHeight == 722
\* clicks on the export buttons, and frames one exported clip may draw
MaxClicks == 2
ExportTicks == 1

\* ------------------------------------------------------- program constants
SizeThreshold == 20971520
NegInfinity == -1000000
TARGET_HEIGHT == 360
MAX_HEIGHT == 720

Runs == {1, 2}

\* run: the state of each call; budget: the bounds on its ticks and chunks,
\* fixed by the initial state; surface: the source's intrinsic dimensions and
\* the dimensions of the canvas made for it; app: the state of the App
\* component and of its handlers waiting on a call.
VARIABLES run, budget, surface, app

vars == <<run, budget, surface, app>>

Min(a, b) == IF a <= b THEN a ELSE b

\* Math.round(n / d * 100) for d > 0: rounds half towards +Infinity.
RoundPercent(n, d) == (200 * n + d) \div (2 * d)

\* n / d * 100 rounded as JavaScript does it, d of any sign.  In the states
\* the tick loop reaches with d <= 0 the numerator is negative: n / 0 is
\* -Infinity and stays -Infinity through Math.round and Math.min.
JsRoundPercent(n, d) ==
  IF d > 0 THEN RoundPercent(n, d)
  ELSE IF d < 0 THEN RoundPercent(-n, -d)
  ELSE IF n < 0 THEN NegInfinity ELSE -NegInfinity

NoResult == [kind |-> "none", file |-> 0, parts |-> <<>>, err |-> "none"]
FileResult(f) == [kind |-> "file", file |-> f, parts |-> <<>>, err |-> "none"]
BlobResult(c) == [kind |-> "blob", file |-> 0, parts |-> c, err |-> "none"]
ErrResult(e) == [kind |-> "error", file |-> 0, parts |-> <<>>, err |-> e]

\* A call that has not been made yet: its arguments and the asset's
\* properties, and a closure with nothing in it.
Fresh(k, f, sz, st, en, du, sk) ==
  [kind |-> k, file |-> f, size |-> sz, startTime |-> st, endTime |-> en,
   duration |-> du, seekable |-> sk,
   called |-> FALSE, video |-> FALSE, url |-> "none", loaded |-> "no",
   failed |-> FALSE, canvas |-> FALSE, recorder |-> "none", codec |-> "none",
   fallbackOk |-> FALSE,
   onended |-> FALSE, settleTimer |-> FALSE, endTimer |-> FALSE,
   play |-> "none", raf |-> FALSE,
   paused |-> TRUE, ended |-> FALSE, seeking |-> FALSE, currentTime |-> 0,
   emitted |-> <<>>, chunks |-> <<>>, progress |-> <<>>, events |-> <<>>,
   promise |-> "pending", result |-> NoResult,
   resolveCalls |-> 0, rejectCalls |-> 0]

Off == [Fresh("off", 0, 0, 0, 0, 1, TRUE) EXCEPT !.called = TRUE]

CompressInputs ==
  { Fresh("compress", 1, sz, 0, 0, du, TRUE) :
      sz \in {SizeThreshold - 1, SizeThreshold}, du \in 1..MaxTime }

CutInputs ==
  { Fresh("cut", 1, SizeThreshold - 1, st, en, du, sk) :
      st \in 0..MaxTime, en \in 0..MaxTime, du \in 1..MaxTime,
      sk \in BOOLEAN }

\* ------------------------------------------------ the promise and callbacks
\* resolve(v): the first settling call decides the promise, later ones are
\* ignored by it (and counted here).
ResolveWith(s, v) ==
  [s EXCEPT !.resolveCalls = @ + 1,
            !.promise = IF s.promise = "pending" THEN "resolved" ELSE @,
            !.result = IF s.promise = "pending" THEN v ELSE @]

\* reject(e)
RejectWith(s, e) ==
  [s EXCEPT !.rejectCalls = @ + 1,
            !.promise = IF s.promise = "pending" THEN "rejected" ELSE @,
            !.result = IF s.promise = "pending" THEN ErrResult(e) ELSE @]

\* onProgress(p), as the caller sees it; the call with 100 is also logged
\* among the run's encoder events, to order it against them.
OnProgress(s, p) ==
  [s EXCEPT !.progress = Append(@, p),
            !.events = IF p = 100 THEN Append(@, "p100") ELSE @]

\* URL.revokeObjectURL(url)
RevokeUrl(s) == [s EXCEPT !.url = "revoked"]

\* ------------------------------------------------------------ MediaRecorder
\* mediaRecorder.state: after stop() the attribute reads inactive at once,
\* while the last dataavailable and the stop event are still to come.
RecorderState(s) ==
  IF s.recorder = "recording" THEN "recording" ELSE "inactive"

\* mediaRecorder.start()
RecorderStart(s) == [s EXCEPT !.recorder = "recording"]

\* mediaRecorder.stop()
RecorderStop(s) ==
  [s EXCEPT !.recorder = "stopping", !.events = Append(@, "stop")]

\* ondataavailable without its size test
OnDataAvailableNoSizeCheck(s, size) ==
  LET n == Len(s.emitted) + 1 IN
  [s EXCEPT !.emitted = Append(@, size), !.chunks = Append(@, n)]

\* mediaRecorder.ondataavailable = (e) => { if (e.data.size > 0) push }
\* The chunk is named by its place in the encoder's emission order.
OnDataAvailable(s, size) ==
  LET n == Len(s.emitted) + 1 IN
  [s EXCEPT !.emitted = Append(@, size),
            !.chunks = IF size > 0 THEN Append(@, n) ELSE @]

\* onstop without URL.revokeObjectURL(url)
OnStopNoRevoke(s) ==
  LET blob == BlobResult(s.chunks) IN
  ResolveWith([s EXCEPT !.recorder = "stopped",
                        !.events = Append(@, "onstop")], blob)

\* mediaRecorder.onstop: build the blob, release the URL, resolve.
OnStop(s) ==
  LET blob == BlobResult(s.chunks) IN
  ResolveWith(RevokeUrl([s EXCEPT !.recorder = "stopped",
                                  !.events = Append(@, "onstop")]), blob)

\* ----------------------------------------------------------- video element
\* video.onerror of either function
OnError(s) == RejectWith(RevokeUrl(s), "load")

\* video.play().then(tick).catch(e => reject(e)): a refusal (autoplay
\* policy) is decided inside play(), the returned promise is already
\* rejected and the catch handler runs before any other task.
VideoPlay(s, allowed) ==
  IF allowed
    THEN [s EXCEPT !.paused = FALSE, !.play = "pending"]
    ELSE RejectWith([s EXCEPT !.play = "refused"], "play")

\* ------------------------------------------------------------ compressVideo
\* the percent of compressVideo without its Math.min(99, ...)
CompressPercentUnclamped(s) == JsRoundPercent(s.currentTime, s.duration)

CompressPercent(s) == Min(99, JsRoundPercent(s.currentTime, s.duration))

\* compressVideo with the fast path's return left out.
CompressVideoNoReturn(s) ==
  LET c == [s EXCEPT !.called = TRUE]
      d == IF s.size < SizeThreshold
             THEN ResolveWith(OnProgress(c, 100), FileResult(s.file))
             ELSE c
  IN  [d EXCEPT !.video = TRUE, !.url = "live"]

\* compressVideo with the size test written <=
CompressVideoInclusive(s) ==
  LET c == [s EXCEPT !.called = TRUE] IN
  IF s.size <= SizeThreshold
    THEN ResolveWith(OnProgress(c, 100), FileResult(s.file))
    ELSE [c EXCEPT !.video = TRUE, !.url = "live"]

\* The promise executor of compressVideo.
CompressVideo(s) ==
  LET c == [s EXCEPT !.called = TRUE] IN
  IF s.size < SizeThreshold
    THEN ResolveWith(OnProgress(c, 100), FileResult(s.file))
    ELSE [c EXCEPT !.video = TRUE, !.url = "live"]

\* video.onloadedmetadata of compressVideo.  A MediaRecorder constructor
\* that throws ends the handler there: nothing catches it, whether or not
\* the browser would have accepted another codec (webmOk).
CompressOnLoadedMetadata(s, ctxOk, vp8Ok, webmOk, playOk) ==
  LET c == [s EXCEPT !.loaded = "meta", !.canvas = TRUE] IN
  IF ~ctxOk THEN RejectWith(RevokeUrl(c), "canvas")
  ELSE IF ~vp8Ok THEN [c EXCEPT !.codec = "failed", !.fallbackOk = webmOk]
  ELSE LET m == RecorderStart([c EXCEPT !.codec = "first"])
       IN  [VideoPlay(m, playOk) EXCEPT !.onended = TRUE]

\* drawFrame of compressVideo finalizing in its terminal branch, as
\* cutVideo's does, without the test of the recorder's state
CompressDrawFrameStops(s) ==
  IF s.paused \/ s.ended
    THEN [OnProgress(RecorderStop(s), 100) EXCEPT !.raf = FALSE]
    ELSE [OnProgress(s, CompressPercent(s)) EXCEPT !.raf = TRUE]

\* drawFrame of compressVideo
CompressDrawFrame(s) ==
  IF s.paused \/ s.ended
    THEN [s EXCEPT !.raf = FALSE]
    ELSE [OnProgress(s, CompressPercent(s)) EXCEPT !.raf = TRUE]

\* video.onended of compressVideo: setTimeout(..., 100)
CompressOnEnded(s) == [s EXCEPT !.endTimer = TRUE]

\* the timeout set by onended reporting 100 before it stops the recorder
CompressEndTimeoutProgressFirst(s) ==
  RecorderStop(OnProgress([s EXCEPT !.endTimer = FALSE], 100))

\* the timeout set by onended
CompressEndTimeout(s) ==
  OnProgress(RecorderStop([s EXCEPT !.endTimer = FALSE]), 100)

\* ----------------------------------------------------------------- cutVideo
CutPercent(s) ==
  Min(99, JsRoundPercent(s.currentTime - s.startTime,
                         s.endTime - s.startTime))

\* The promise executor of cutVideo.  The element is new, its readyState is
\* HAVE_NOTHING, so startProcessing waits for loadedmetadata and the
\* assignment to currentTime only sets the position the load will seek to.
CutVideo(s) ==
  [s EXCEPT !.called = TRUE, !.video = TRUE, !.url = "live"]

\* startProcessing up to the settle timeout.  With the metadata loaded the
\* element seeks to the position the executor asked for, when that is not
\* 0.  The first MediaRecorder constructor is inside try, the second inside
\* its catch: a second throw leaves the handler.  video.currentTime =
\* startTime, after the recorder is built, starts a seek.
StartProcessing(s, ctxOk, vp9Ok, webmOk) ==
  LET c == [s EXCEPT !.loaded = "meta", !.canvas = TRUE,
                     !.seeking = s.startTime > 0]
  IN
  IF ~ctxOk THEN RejectWith(RevokeUrl(c), "canvas")
  ELSE IF ~vp9Ok /\ ~webmOk THEN [c EXCEPT !.codec = "failed"]
  ELSE [c EXCEPT !.codec = IF vp9Ok THEN "first" ELSE "fallback",
                 !.fallbackOk = ~vp9Ok,
                 !.seeking = TRUE,
                 !.recorder = "inactive",
                 !.settleTimer = TRUE]

\* the 200 ms timeout of startProcessing
CutSettleTimeout(s, playOk) ==
  VideoPlay(RecorderStart([s EXCEPT !.settleTimer = FALSE]), playOk)

\* video.onloadeddata of cutVideo: video.currentTime = startTime
CutOnLoadedData(s) == [s EXCEPT !.seeking = TRUE]

\* video.onseeked of cutVideo: returns on either branch, changes nothing.
CutOnSeeked(s) == s

CutTerminal(s) ==
  s.paused \/ s.ended \/ s.currentTime >= s.endTime

\* drawFrame of cutVideo reporting 100 before it stops the recorder.
CutDrawFrameProgressFirst(s) ==
  IF CutTerminal(s)
    THEN LET a == IF RecorderState(s) = "recording"
                    THEN RecorderStop(OnProgress(s, 100))
                    ELSE s
         IN  [a EXCEPT !.paused = TRUE, !.raf = FALSE]
    ELSE [OnProgress(s, CutPercent(s)) EXCEPT !.raf = TRUE]

\* drawFrame of cutVideo rescheduling itself in its terminal branch too
CutDrawFrameReschedules(s) ==
  IF CutTerminal(s)
    THEN LET a == IF RecorderState(s) = "recording"
                    THEN OnProgress(RecorderStop(s), 100)
                    ELSE s
         IN  [a EXCEPT !.paused = TRUE, !.raf = TRUE]
    ELSE [OnProgress(s, CutPercent(s)) EXCEPT !.raf = TRUE]

\* drawFrame of cutVideo with the terminal branch's return left out.
CutDrawFrameNoReturn(s) ==
  LET a == IF CutTerminal(s) /\ RecorderState(s) = "recording"
             THEN OnProgress(RecorderStop(s), 100)
             ELSE s
      b == IF CutTerminal(s) THEN [a EXCEPT !.paused = TRUE] ELSE a
  IN  [OnProgress(b, CutPercent(b)) EXCEPT !.raf = TRUE]

\* drawFrame of cutVideo
CutDrawFrame(s) ==
  IF CutTerminal(s)
    THEN LET a == IF RecorderState(s) = "recording"
                    THEN OnProgress(RecorderStop(s), 100)
                    ELSE s
         IN  [a EXCEPT !.paused = TRUE, !.raf = FALSE]
    ELSE [OnProgress(s, CutPercent(s)) EXCEPT !.raf = TRUE]

\* ------------------------------------------------------- either function
DrawFrame(s) ==
  IF s.kind = "compress" THEN CompressDrawFrame(s) ELSE CutDrawFrame(s)

\* whether the next tick would draw and reschedule
Draws(s) ==
  IF s.kind = "compress" THEN ~(s.paused \/ s.ended) ELSE ~CutTerminal(s)

Playing(s) ==
  s.play = "started" /\ ~s.paused /\ ~s.ended /\ ~s.failed /\ ~s.seeking

\* ------------------------------------------------------ the capture surface
\* Math.round(target * (w / h)) for h > 0.  The quotient and the product are
\* doubles: away from a tie the result is the exact one; at an exact tie
\* (the fraction is one half) the rounding of w / h decides, so either
\* neighbour may come out.
RoundScaled(target, w, h) ==
  LET lo == (target * w) \div h
      twice == (2 * target * w) \div h - 2 * lo
      tie == twice = 1 /\ (2 * target * w) % h = 0
  IN  IF tie THEN {lo, lo + 1}
      ELSE IF twice = 1 THEN {lo + 1} ELSE {lo}

\* A canvas as document.createElement('canvas') makes it, for a source of
\* the given intrinsic size.
Canvas(k, w, h) ==
  [kind |-> k, videoWidth |-> w, videoHeight |-> h,
   made |-> FALSE, width |-> 300, height |-> 150]

NoSurface == [Canvas("off", 1, 1) EXCEPT !.made = TRUE]

\* compressVideo's onloadedmetadata: canvas.width = TARGET_WIDTH,
\* canvas.height = TARGET_HEIGHT, tw being the rounded TARGET_WIDTH.
CompressSurface(c, tw) ==
  [c EXCEPT !.made = TRUE, !.width = tw, !.height = TARGET_HEIGHT]

\* startProcessing of cutVideo: the source's size, or MAX_HEIGHT and the
\* rounded width (tw) when the source is higher.
CutSurface(c, tw) ==
  IF c.videoHeight > MAX_HEIGHT
    THEN [c EXCEPT !.made = TRUE, !.width = tw, !.height = MAX_HEIGHT]
    ELSE [c EXCEPT !.made = TRUE, !.width = c.videoWidth,
                   !.height = c.videoHeight]

\* ---------------------------------------------------------------- the App
\* null of exportingClipId; videoFile and result have 0 for null.
NullId == "<null>"

\* the truth value of a string or null in a condition
Truthy(id) == id # NullId /\ id # ""

\* The component as mounted: the initial values of its useState hooks.
\* status is kept as the values given to setStatus, latest last; awaiting
\* says which handler waits on each call; analyzing, that analyzeVideo has
\* been called (with processFile) and has not settled; outcomes, what the
\* export handlers ended with.
AppMounted ==
  [videoFile |-> 0, status |-> <<"IDLE">>, result |-> 0,
   exportingClipId |-> NullId,
   awaiting |-> [r \in Runs |-> "none"],
   analyzing |-> FALSE, processFile |-> NoResult,
   clicks |-> 0, outcomes |-> <<>>]

Status(a) == a.status[Len(a.status)]

SetStatus(a, v) == [a EXCEPT !.status = Append(@, v)]

\* handleFileUpload with a file chosen
HandleFileUpload(a, f) ==
  [SetStatus(a, "IDLE") EXCEPT !.videoFile = f, !.result = 0]

\* handleAnalyze giving analyzeVideo the file it was called on
HandleAnalyzeCompressedOriginal(a, r, s) ==
  LET b == [a EXCEPT !.awaiting[r] = "none"] IN
  IF s.promise = "resolved"
    THEN [SetStatus(b, "ANALYZING") EXCEPT !.analyzing = TRUE,
                                            !.processFile =
                                              FileResult(a.videoFile)]
    ELSE SetStatus(b, "ERROR")

\* handleAnalyze after `await compressVideo(...)`, s being the call: on a
\* resolved promise set ANALYZING and call analyzeVideo with the value, on
\* a rejected one run the catch block.
HandleAnalyzeCompressed(a, r, s) ==
  LET b == [a EXCEPT !.awaiting[r] = "none"] IN
  IF s.promise = "resolved"
    THEN [SetStatus(b, "ANALYZING") EXCEPT !.analyzing = TRUE,
                                            !.processFile = s.result]
    ELSE SetStatus(b, "ERROR")

\* handleAnalyze after `await analyzeVideo(processFile)`
HandleAnalyzeAnalyzed(a, ok, data) ==
  LET b == [a EXCEPT !.analyzing = FALSE] IN
  IF ok THEN SetStatus([b EXCEPT !.result = data], "COMPLETED")
        ELSE SetStatus(b, "ERROR")

\* the test that opens handleExportClip, without `|| exportingClipId`
HandleExportClipReturnsNoFile(a) == a.videoFile = 0

\* if (!videoFile || exportingClipId) return;
HandleExportClipReturns(a) == a.videoFile = 0 \/ Truthy(a.exportingClipId)

\* handleExportClip after `await cutVideo(...)`: the download or the catch
\* block, then the finally block.
HandleExportClipSettled(a, r, s) ==
  [a EXCEPT !.awaiting[r] = "none",
            !.outcomes = Append(@, IF s.promise = "resolved"
                                     THEN "download" ELSE "alert"),
            !.exportingClipId = NullId]

\* The handler waiting on call r, if there is one, goes on as soon as the
\* call's promise is settled: in the same task, as a microtask.
Continue(a, r, s) ==
  IF s.promise = "pending" \/ a.awaiting[r] = "none" THEN a
  ELSE IF a.awaiting[r] = "export" THEN HandleExportClipSettled(a, r, s)
  ELSE HandleAnalyzeCompressed(a, r, s)

\* ------------------------------------------------------------------ actions
\* Call r becomes s in a task that leaves the App as a, but for the handler
\* waiting on the call.
SetApp(r, s, a) ==
  /\ run' = [run EXCEPT ![r] = s]
  /\ app' = Continue(a, r, s)
  /\ UNCHANGED <<budget, surface>>

Set(r, s) == SetApp(r, s, app)

\* compressVideo(file, onProgress) is called.
CallCompress(r) ==
  /\ run[r].kind = "compress" /\ ~run[r].called
  /\ Set(r, CompressVideo(run[r]))

\* cutVideo(file, startTime, endTime, onProgress) is called.
CallCut(r) ==
  /\ run[r].kind = "cut" /\ ~run[r].called
  /\ Set(r, CutVideo(run[r]))

\* loadedmetadata fires on the video of a compressVideo run.
LoadedMetadataCompress(r) ==
  /\ run[r].kind = "compress" /\ run[r].video
  /\ run[r].loaded = "no" /\ ~run[r].failed
  /\ \E ctxOk, vp8Ok, webmOk, playOk \in BOOLEAN :
       Set(r, CompressOnLoadedMetadata(run[r], ctxOk, vp8Ok, webmOk, playOk))

\* loadedmetadata fires on the video of a cutVideo run.
LoadedMetadataCut(r) ==
  /\ run[r].kind = "cut" /\ run[r].video
  /\ run[r].loaded = "no" /\ ~run[r].failed
  /\ \E ctxOk, vp9Ok, webmOk \in BOOLEAN :
       Set(r, StartProcessing(run[r], ctxOk, vp9Ok, webmOk))

\* loadeddata fires: once, after loadedmetadata and before playback starts.
LoadedData(r) ==
  /\ run[r].loaded = "meta" /\ ~run[r].failed
  /\ LET s == [run[r] EXCEPT !.loaded = "data"] IN
     Set(r, IF s.kind = "cut" THEN CutOnLoadedData(s) ELSE s)

\* The pending seek ends and seeked fires.  The position moves to the
\* requested time, held to the end of the media; an asset with no seekable
\* range keeps its position.
Seeked(r) ==
  /\ run[r].seeking /\ ~run[r].failed
  /\ LET s == run[r] IN
     Set(r, CutOnSeeked(
              [s EXCEPT !.seeking = FALSE,
                        !.currentTime = IF s.seekable
                                          THEN Min(s.startTime, s.duration)
                                          ELSE @]))

\* The 200 ms settle timeout of cutVideo fires.
SettleTimeout(r) ==
  /\ run[r].settleTimer
  /\ \E playOk \in BOOLEAN : Set(r, CutSettleTimeout(run[r], playOk))

\* Playback starts: the promise of play() is fulfilled and its then-handler
\* runs the first tick.
PlayThen(r) ==
  /\ run[r].play = "pending" /\ run[r].loaded = "data"
  /\ ~run[r].failed /\ ~run[r].seeking
  /\ Set(r, DrawFrame([run[r] EXCEPT !.play = "started"]))

\* A tick scheduled with requestAnimationFrame runs.
Tick(r) ==
  /\ run[r].raf
  /\ Draws(run[r]) => Len(run[r].progress) < budget.ticks
  /\ Set(r, DrawFrame(run[r]))

\* The media position moves forward by one unit of time.
Advance(r) ==
  /\ Playing(run[r]) /\ run[r].currentTime < run[r].duration
  /\ Set(r, [run[r] EXCEPT !.currentTime = @ + 1])

\* Playback reaches the end of the media: ended fires.
VideoEnded(r) ==
  /\ Playing(run[r]) /\ run[r].currentTime >= run[r].duration
  /\ LET s == [run[r] EXCEPT !.ended = TRUE] IN
     Set(r, IF s.onended THEN CompressOnEnded(s) ELSE s)

\* The user agent pauses the playing element.
VideoPaused(r) ==
  /\ run[r].play = "started" /\ ~run[r].paused /\ ~run[r].ended
  /\ Set(r, [run[r] EXCEPT !.paused = TRUE])

\* The element reports a load or decode error.
VideoError(r) ==
  /\ run[r].video /\ ~run[r].failed /\ ~run[r].ended
  /\ Set(r, OnError([run[r] EXCEPT !.failed = TRUE]))

\* The timeout set by compressVideo's onended fires.
EndTimeout(r) ==
  /\ run[r].endTimer
  /\ Set(r, CompressEndTimeout(run[r]))

\* A chunk list shared by the runs (declared outside the promise executor):
\* every run's list receives the chunk.
DataAvailableShared(r) ==
  /\ \/ run[r].recorder = "recording" /\ Len(run[r].emitted) < budget.chunks
     \/ run[r].recorder = "stopping"
  /\ \E size \in {0, 1} :
       LET s == OnDataAvailable(run[r], size)
           n == IF s.recorder = "stopping"
                  THEN [s EXCEPT !.recorder = "flushed"] ELSE s
       IN  /\ UNCHANGED <<budget, surface, app>>
           /\ run' = [q \in Runs |->
                       IF q = r THEN n
                       ELSE IF run[q].kind # "off" /\ size > 0
                         THEN [run[q] EXCEPT
                                 !.chunks = Append(@, Len(s.emitted))]
                         ELSE run[q]]

\* The encoder delivers a chunk: while recording, or the last one after
\* stop().
DataAvailable(r) ==
  /\ \/ run[r].recorder = "recording" /\ Len(run[r].emitted) < budget.chunks
     \/ run[r].recorder = "stopping"
  /\ \E size \in {0, 1} :
       LET s == OnDataAvailable(run[r], size) IN
       Set(r, IF s.recorder = "stopping"
                THEN [s EXCEPT !.recorder = "flushed"] ELSE s)

\* The recorder's stop event fires, after its last chunk.
RecorderStopped(r) ==
  /\ run[r].recorder = "flushed"
  /\ Set(r, OnStop(run[r]))

Step(r) ==
  \/ CallCompress(r)
  \/ CallCut(r)
  \/ LoadedMetadataCompress(r)
  \/ LoadedMetadataCut(r)
  \/ LoadedData(r)
  \/ Seeked(r)
  \/ SettleTimeout(r)
  \/ PlayThen(r)
  \/ Tick(r)
  \/ Advance(r)
  \/ VideoEnded(r)
  \/ VideoPaused(r)
  \/ VideoError(r)
  \/ EndTimeout(r)
  \/ DataAvailable(r)
  \/ RecorderStopped(r)

Next == \E r \in Runs : Step(r)

\* One call, of either function, with any arguments and asset.
Init ==
  /\ \E i \in CompressInputs \cup CutInputs :
       run = [r \in Runs |-> IF r = 1 THEN i ELSE Off]
  /\ budget = [ticks |-> MaxTicks, chunks |-> MaxChunks]
  /\ surface = NoSurface
  /\ app = AppMounted

Spec == Init /\ [][Next]_vars

\* ------------------------------------------------------------------- claims
\* The precondition of cutVideo: 0 <= startTime < endTime <= duration.
ValidRange(s) ==
  0 <= s.startTime /\ s.startTime < s.endTime /\ s.endTime <= s.duration

NoResources(s) ==
  ~s.video /\ s.url = "none" /\ ~s.canvas /\ s.recorder = "none"

\* C1: a compressVideo call on a file below the size threshold calls
\* onProgress exactly once, with 100, resolves with the very file it was
\* given, and creates no video element, object URL, canvas or encoder.
C1_FastPath ==
  \A r \in Runs :
    LET s == run[r] IN
    (s.kind = "compress" /\ s.called /\ s.size < SizeThreshold) =>
      /\ s.progress = <<100>>
      /\ s.promise = "resolved" /\ s.result = FileResult(s.file)
      /\ s.resolveCalls = 1 /\ s.rejectCalls = 0
      /\ NoResources(s)

C1_Witness ==
  \E r \in Runs :
    /\ run[r].kind = "compress" /\ run[r].called
    /\ run[r].size = SizeThreshold - 1
    /\ run[r].promise = "resolved" /\ run[r].progress = <<100>>

\* C2 (as stated): in a cutVideo run with a valid range, the onProgress(100)
\* call follows the recorder's stop event.
C2_FinalFollowsStopEvent ==
  \A r \in Runs :
    LET s == run[r] IN
    (s.kind = "cut" /\ ValidRange(s)) =>
      \A i \in 1..Len(s.events) :
        s.events[i] = "p100" => \E j \in 1..(i - 1) : s.events[j] = "onstop"

\* C2 (amended): in a cutVideo run with a valid range, the onProgress(100)
\* call follows the stop request (mediaRecorder.stop()) at once and precedes
\* the recorder's stop event: the run's encoder events are, in this order,
\* stop(), onProgress(100), onstop.
C2_FinalBetweenStopAndStopEvent ==
  \A r \in Runs :
    LET s == run[r]
        order == <<"stop", "p100", "onstop">>
    IN  (s.kind = "cut" /\ ValidRange(s)) =>
          /\ Len(s.events) <= 3
          /\ \A i \in 1..Len(s.events) : s.events[i] = order[i]

C2_Witness ==
  \E r \in Runs :
    /\ run[r].kind = "cut" /\ ValidRange(run[r])
    /\ run[r].events = <<"stop", "p100", "onstop">>
    /\ run[r].promise = "resolved"

\* C3: in a cutVideo run no progress callback follows the call with 100,
\* and a run that resolved has made that call: exactly once, as the last.
C3_FinalOnceAndLast ==
  \A r \in Runs :
    LET s == run[r] IN
    s.kind = "cut" =>
      /\ \A i \in 1..Len(s.progress) :
           s.progress[i] = 100 => i = Len(s.progress)
      /\ s.promise = "resolved" =>
           /\ Len(s.progress) >= 1
           /\ s.progress[Len(s.progress)] = 100

C3_Witness ==
  \E r \in Runs :
    /\ run[r].kind = "cut" /\ run[r].promise = "resolved"
    /\ Len(run[r].progress) >= 3
    /\ run[r].progress[Len(run[r].progress)] = 100

\* C4: in a cutVideo run with a valid range every progress value before the
\* final 100 is an integer in [0, 99], whatever position the tick observes.
C4_ProgressInRange ==
  \A r \in Runs :
    LET s == run[r] IN
    (s.kind = "cut" /\ ValidRange(s)) =>
      \A i \in 1..Len(s.progress) :
        s.progress[i] # 100 => s.progress[i] \in 0..99

\* C5: the values passed to onProgress in one run never decrease, and every
\* value but the last is at most 99 (100 comes last, after a value <= 99).
C5_Monotone ==
  \A r \in Runs :
    LET s == run[r] IN
    \A i \in 1..(Len(s.progress) - 1) :
      s.progress[i] <= s.progress[i + 1] /\ s.progress[i] <= 99

C5_Witness ==
  \E r \in Runs :
    LET p == run[r].progress IN
    /\ run[r].kind = "compress"
    /\ Len(p) = 3 /\ p[1] < p[2] /\ p[2] = 99 /\ p[3] = 100

\* C6: when play() is refused the run is rejected with the object URL
\* revoked and the encoder not recording.
C6_PlayRefusedReleases ==
  \A r \in Runs :
    LET s == run[r] IN
    s.play = "refused" =>
      /\ s.promise = "rejected"
      /\ s.url = "revoked"
      /\ RecorderState(s) # "recording"

\* C7: cutVideo with startTime >= endTime or endTime > duration is rejected
\* with a range error, allocates nothing and never resolves with a blob.
C7_InvalidRangeRejectedEarly ==
  \A r \in Runs :
    LET s == run[r] IN
    (s.kind = "cut" /\ s.called
       /\ (s.startTime >= s.endTime \/ s.endTime > s.duration)) =>
      /\ NoResources(s)
      /\ s.promise = "rejected" /\ s.result = ErrResult("range")

\* C8: when the first-choice codec is refused and the browser accepts
\* another, the run has an encoder built with the fallback (and, once the
\* start code has run, started), in compressVideo as in cutVideo.
C8_FallbackAfterFirstChoiceFails ==
  \A r \in Runs :
    LET s == run[r] IN
    (s.codec \in {"fallback", "failed"} /\ s.fallbackOk) =>
      s.codec = "fallback" /\ s.recorder # "none"

\* C9: when the encoder cannot be built with any codec preference the run
\* is rejected with an encoder-initialisation error, its URL released.
C9_AllCodecsFailRejects ==
  \A r \in Runs :
    LET s == run[r] IN
    s.codec = "failed" =>
      /\ s.promise = "rejected" /\ s.result = ErrResult("encoder")
      /\ s.url = "revoked"

\* ------------------------------------------------------ two concurrent runs
\* compressVideo on asset 1 (at the size threshold) and cutVideo on asset 2,
\* both in flight on the one event loop, their handlers interleaved.
InitTwo ==
  /\ run = [r \in Runs |->
              IF r = 1
                THEN Fresh("compress", 1, SizeThreshold, 0, 0, 2, TRUE)
                ELSE Fresh("cut", 2, SizeThreshold - 1, 1, 2, 2, TRUE)]
  /\ budget = [ticks |-> PairTicks, chunks |-> PairChunks]
  /\ surface = NoSurface
  /\ app = AppMounted

SpecTwo == InitTwo /\ [][Next]_vars

C11_OneSettlingCall ==
  \A r \in Runs : run[r].resolveCalls + run[r].rejectCalls <= 1

\* C12: after a reject call the run makes no onProgress(100) call and no
\* resolve call (stated for compressVideo and for cutVideo with a valid
\* range).
C12_NoSuccessAfterFailure ==
  [][\A r \in Runs :
       LET s == run[r]
           n == run'[r]
       IN  (s.rejectCalls > 0 /\ (s.kind = "compress" \/ ValidRange(s))) =>
             /\ n.resolveCalls = s.resolveCalls
             /\ Len(n.progress) > Len(s.progress) =>
                  n.progress[Len(n.progress)] # 100]_vars

\* C13: a cutVideo run with a valid range that resolved with a blob has had
\* its tick observe currentTime >= endTime (the terminal tick pauses the
\* element, so the position it saw is the position the element keeps).
C13_NoPartialSuccess ==
  \A r \in Runs :
    LET s == run[r] IN
    (s.kind = "cut" /\ ValidRange(s)
       /\ s.promise = "resolved" /\ s.result.kind = "blob") =>
      s.currentTime >= s.endTime

\* A run that goes through the pipeline: cutVideo, or compressVideo on a
\* file at or above the threshold.
Pipeline(s) ==
  s.kind = "cut" \/ (s.kind = "compress" /\ s.size >= SizeThreshold)

\* C14: when a pipeline run has resolved, its object URL is revoked, its
\* encoder is no longer recording and its playback is ended or paused.
C14_ReleasedOnCompletion ==
  \A r \in Runs :
    LET s == run[r] IN
    (Pipeline(s) /\ s.promise = "resolved") =>
      /\ s.url = "revoked"
      /\ RecorderState(s) # "recording"
      /\ s.paused \/ s.ended

C14_Witness ==
  \E r \in Runs :
    /\ run[r].kind = "compress" /\ run[r].promise = "resolved"
    /\ run[r].result.kind = "blob" /\ run[r].ended
    /\ run[r].url = "revoked" /\ run[r].recorder = "stopped"

\* C15: once the video has fired error, the run is settled, its URL is
\* revoked, its encoder is not recording and no tick is scheduled.
C15_ErrorReleases ==
  \A r \in Runs :
    LET s == run[r] IN
    (s.failed /\ (s.kind = "compress" \/ ValidRange(s))) =>
      /\ s.promise # "pending"
      /\ s.url = "revoked"
      /\ RecorderState(s) # "recording"
      /\ ~s.raf

\* C16: in cutVideo, while the seek to startTime is pending the recorder is
\* not recording and no frame has been drawn (every drawn frame reports one
\* progress value).
C16_NothingBeforeSeeked ==
  \A r \in Runs :
    LET s == run[r] IN
    (s.kind = "cut" /\ ValidRange(s) /\ s.seeking) =>
      RecorderState(s) # "recording" /\ s.progress = <<>>

\* C17: a tick (the first, run by play().then, or a scheduled one) that
\* finds the video paused or ended (in cutVideo, also currentTime >=
\* endTime) reports no value below 100 and schedules no
\* tick; and once the loop has stopped no tick is ever scheduled again and
\* no value below 100 is reported.
C17_TerminalTickStops ==
  [][\A r \in Runs :
       LET s == run[r]
           n == run'[r]
       IN  /\ ((Tick(r) \/ PlayThen(r)) /\ ~Draws(s)) =>
                /\ ~n.raf
                /\ \A i \in (Len(s.progress) + 1)..Len(n.progress) :
                     n.progress[i] = 100
           /\ (s.play = "started" /\ ~s.raf) =>
                /\ ~n.raf
                /\ \A i \in (Len(s.progress) + 1)..Len(n.progress) :
                     n.progress[i] = 100]_vars

C17_Witness ==
  \E r \in Runs :
    /\ run[r].kind = "compress" /\ run[r].play = "started"
    /\ ~run[r].raf /\ run[r].paused /\ ~run[r].ended
    /\ Len(run[r].progress) >= 2

\* C18: the encoder goes none/inactive -> recording -> stopped and never
\* back; it starts recording before play() is called and before a frame is
\* drawn, and stop() is called at most once, while it is recording.
C18_EncoderLifecycle ==
  [][\A r \in Runs :
       LET s == run[r]
           n == run'[r]
           stops(x) == Len(SelectSeq(x.events, LAMBDA e : e = "stop"))
       IN  /\ n.recorder # s.recorder =>
                <<s.recorder, n.recorder>> \in
                  { <<"none", "inactive">>, <<"none", "recording">>,
                    <<"inactive", "recording">>, <<"recording", "stopping">>,
                    <<"stopping", "flushed">>, <<"flushed", "stopped">> }
           /\ (n.recorder = "recording" /\ s.recorder # "recording") =>
                s.play = "none" /\ s.progress = <<>>
           /\ n.play # "none" => n.recorder \notin {"none", "inactive"}
           /\ stops(n) > stops(s) =>
                stops(n) = 1 /\ s.recorder = "recording"]_vars

C18_Witness ==
  \E r \in Runs :
    /\ run[r].kind = "cut" /\ run[r].recorder = "stopped"
    /\ run[r].ended /\ run[r].currentTime >= run[r].endTime
    /\ Len(run[r].progress) >= 2

\* The non-empty chunks among those the encoder has emitted, by their place
\* in the emission order.
NonEmpty(s) ==
  SelectSeq([i \in 1..Len(s.emitted) |-> i], LAMBDA i : s.emitted[i] > 0)

\* C19: the chunk list is, at every moment, the non-empty chunks emitted so
\* far in emission order (so it only grows, by appending), and a resolved
\* blob is made of exactly the chunks emitted before the stop event.
C19_ChunksAppendOnly ==
  \A r \in Runs :
    LET s == run[r] IN
    /\ s.chunks = NonEmpty(s)
    /\ s.result.kind = "blob" => s.result.parts = NonEmpty(s)

C19_Witness ==
  \E r \in Runs :
    /\ run[r].promise = "resolved" /\ run[r].result.kind = "blob"
    /\ run[r].emitted = <<0, 1>> /\ run[r].result.parts = <<2>>

\* C20: in a pipeline run (compressVideo at exactly the threshold included)
\* resolve is called only by the recorder's stop event, with the blob of the
\* encoder's chunks; the run never resolves with the file.
C20_OnlyStopEventResolves ==
  [][\A r \in Runs :
       LET s == run[r]
           n == run'[r]
       IN  Pipeline(s) =>
             /\ n.resolveCalls > s.resolveCalls =>
                  /\ s.recorder = "flushed" /\ n.recorder = "stopped"
                  /\ n.promise = "resolved" => n.result = BlobResult(s.chunks)
             /\ n.result.kind # "file"]_vars

C20_Witness ==
  \E r \in Runs :
    /\ run[r].kind = "compress" /\ run[r].size = SizeThreshold
    /\ run[r].promise = "resolved" /\ run[r].result = BlobResult(<<1>>)

\* ------------------------------------------------- the end of a compression
\* C21: in a compressVideo pipeline run the encoder is stopped and 100 is
\* reported only after the video has ended: every value reported before is
\* at most 99, stop() comes before onProgress(100), which comes before the
\* stop event, and the 100 is the last value reported.
C21_FinalAfterEnded ==
  \A r \in Runs :
    LET s == run[r]
        order == <<"stop", "p100", "onstop">>
    IN  (s.kind = "compress" /\ s.size >= SizeThreshold) =>
          /\ Len(s.events) <= 3
          /\ \A i \in 1..Len(s.events) : s.events[i] = order[i]
          /\ s.events # <<>> => s.ended
          /\ \A i \in 1..Len(s.progress) :
               IF s.progress[i] = 100
                 THEN i = Len(s.progress) /\ s.ended
                 ELSE s.progress[i] <= 99
          /\ ~s.ended => \A i \in 1..Len(s.progress) : s.progress[i] <= 99

C21_Witness ==
  \E r \in Runs :
    /\ run[r].kind = "compress" /\ run[r].ended
    /\ run[r].events = <<"stop", "p100">>
    /\ Len(run[r].progress) >= 2
    /\ run[r].progress[Len(run[r].progress)] = 100
    /\ run[r].progress[Len(run[r].progress) - 1] <= 99

\* ------------------------------------------------------------- termination
\* The event loop is fair: a task that stays queued is run.  The call
\* itself, the media element's loading, seeking and playback, the timers, the
\* animation frames, the fulfilment of play() and the recorder's events after
\* stop() all happen when they can.  Nothing obliges the user agent to pause
\* the element, the element to fail, or the encoder to deliver a chunk
\* before stop().
Fairness ==
  \A r \in Runs :
    /\ WF_vars(CallCompress(r))
    /\ WF_vars(CallCut(r))
    /\ WF_vars(LoadedMetadataCompress(r))
    /\ WF_vars(LoadedMetadataCut(r))
    /\ WF_vars(LoadedData(r))
    /\ WF_vars(Seeked(r))
    /\ WF_vars(SettleTimeout(r))
    /\ WF_vars(PlayThen(r))
    /\ WF_vars(Tick(r))
    /\ WF_vars(Advance(r))
    /\ WF_vars(VideoEnded(r))
    /\ WF_vars(EndTimeout(r))
    /\ WF_vars(DataAvailable(r) /\ run[r].recorder = "stopping")
    /\ WF_vars(RecorderStopped(r))

SpecFair == Init /\ [][Next]_vars /\ Fairness

\* the encoder has been started and play() has been called
Begun(s) == s.recorder = "recording" /\ s.play # "none"

\* C22: once recording has begun (encoder started, play() called) the run
\* eventually settles, resolved or rejected.
C22_EventuallySettles ==
  \A r \in Runs : Begun(run[r]) ~> (run[r].promise # "pending")

\* ------------------------------------------------------ surface dimensions
\* The canvas of a compressVideo run is made when loadedmetadata fires.
MakeCompressSurface ==
  /\ surface.kind = "compress" /\ ~surface.made
  /\ \E tw \in RoundScaled(TARGET_HEIGHT, surface.videoWidth,
                            surface.videoHeight) :
       surface' = CompressSurface(surface, tw)
  /\ UNCHANGED <<run, budget, app>>

\* The canvas of a cutVideo run is made by startProcessing.
MakeCutSurface ==
  /\ surface.kind = "cut" /\ ~surface.made
  /\ \E tw \in RoundScaled(MAX_HEIGHT, surface.videoWidth,
                            surface.videoHeight) :
       surface' = CutSurface(surface, tw)
  /\ UNCHANGED <<run, budget, app>>

NextSurface == MakeCompressSurface \/ MakeCutSurface

\* A source of any intrinsic size, given to either function.
InitSurface ==
  /\ \E k \in {"compress", "cut"}, w \in 1..MaxVideoWidth,
        h \in 1..MaxVideoHeight : surface = Canvas(k, w, h)
  /\ run = [r \in Runs |-> Off]
  /\ budget = [ticks |-> 0, chunks |-> 0]
  /\ app = AppMounted

SpecSurface == InitSurface /\ [][NextSurface]_vars

\* C23: the canvas made for a run is never larger than the source, in
\* width or in height, and cutVideo keeps the source's size when its height
\* is at most 720.
C23_NoUpscaling ==
  surface.made =>
    /\ surface.width <= surface.videoWidth
    /\ surface.height <= surface.videoHeight
    /\ (surface.kind = "cut" /\ surface.videoHeight <= MAX_HEIGHT) =>
         /\ surface.width = surface.videoWidth
         /\ surface.height = surface.videoHeight

\* ------------------------------------------------------- exporting a clip
\* The clips of the analysis result shown as cards, each with its export
\* button.
Clips ==
  { [id |-> "a", startTime |-> 0, endTime |-> 1],
    [id |-> "b", startTime |-> 0, endTime |-> 1] }

\* A click on the export button of clip c, which is rendered with the
\* result and disabled while c is the clip being exported.  The handler
\* returns at once, or notes the clip and calls cutVideo, whose executor
\* runs inside the call; it then waits for the promise.
ClickExport(c) ==
  /\ Status(app) = "COMPLETED" /\ app.result # 0
  /\ app.exportingClipId # c.id
  /\ app.clicks < MaxClicks
  /\ LET a == [app EXCEPT !.clicks = @ + 1] IN
     IF HandleExportClipReturns(a)
       THEN app' = a /\ UNCHANGED <<run, budget, surface>>
       ELSE \E r \in Runs :
              /\ run[r].kind = "off"
              /\ \A q \in Runs : q < r => run[q].kind # "off"
              /\ SetApp(r,
                        CutVideo(Fresh("cut", a.videoFile, SizeThreshold,
                                       c.startTime, c.endTime, 1, TRUE)),
                        [a EXCEPT !.exportingClipId = c.id,
                                  !.awaiting[r] = "export"])

\* the events of a cutVideo call
CutStep(r) ==
  \/ LoadedMetadataCut(r)
  \/ LoadedData(r)
  \/ Seeked(r)
  \/ SettleTimeout(r)
  \/ PlayThen(r)
  \/ Tick(r)
  \/ Advance(r)
  \/ VideoEnded(r)
  \/ VideoPaused(r)
  \/ VideoError(r)
  \/ DataAvailable(r)
  \/ RecorderStopped(r)

NextExport ==
  \/ \E c \in Clips : ClickExport(c)
  \/ \E r \in Runs : CutStep(r)

\* The App with a file of duration 1 uploaded and analysed, its clips on
\* show, no export started.
InitExport ==
  /\ app = [AppMounted EXCEPT
              !.videoFile = 1, !.result = 1,
              !.processFile = FileResult(1),
              !.status = <<"IDLE", "IDLE", "READING_FILE", "ANALYZING",
                           "COMPLETED">>]
  /\ run = [r \in Runs |-> Off]
  /\ budget = [ticks |-> ExportTicks, chunks |-> PairChunks]
  /\ surface = NoSurface

SpecExport == InitExport /\ [][NextExport]_vars

\* the cutVideo calls whose promise is pending
InFlight == { r \in Runs : run[r].kind = "cut" /\ run[r].promise = "pending" }

\* C24: at most one cutVideo call made by the export handler is pending at
\* any time; while one is pending, exportingClipId is the id of its clip
\* (it is not reset), and when none is pending exportingClipId is null (it
\* is reset on every settlement, resolved or rejected).
C24_OneExportInFlight ==
  /\ Cardinality(InFlight) <= 1
  /\ \A r \in InFlight :
       /\ app.awaiting[r] = "export"
       /\ \E c \in Clips :
            /\ app.exportingClipId = c.id
            /\ run[r].startTime = c.startTime /\ run[r].endTime = c.endTime
  /\ InFlight = {} => app.exportingClipId = NullId
  /\ Len(app.outcomes) = Cardinality({ r \in Runs : run[r].kind = "cut" })
                           - Cardinality(InFlight)

\* Two clicks, the second while the first export was pending: it started
\* nothing; the first export has failed and the id is null again.
C24_Witness ==
  /\ app.clicks = 2 /\ run[1].kind = "cut" /\ run[2].kind = "off"
  /\ run[1].promise = "rejected" /\ app.outcomes = <<"alert">>
  /\ app.exportingClipId = NullId

\* ------------------------------------------------------ analysing the file
\* A file is chosen in the upload area, which is rendered while there is
\* no file.
Upload ==
  /\ app.videoFile = 0
  /\ app' = HandleFileUpload(app, run[1].file)
  /\ UNCHANGED <<run, budget, surface>>

\* A click on the analyze button, rendered with a file whose status is
\* IDLE: handleAnalyze sets READING_FILE and calls compressVideo, whose
\* executor runs inside the call; it then waits for the promise.
ClickAnalyze ==
  /\ app.videoFile # 0 /\ Status(app) = "IDLE"
  /\ \E r \in Runs :
       /\ run[r].kind = "compress" /\ ~run[r].called
       /\ run[r].file = app.videoFile
       /\ SetApp(r, CompressVideo(run[r]),
                 [SetStatus(app, "READING_FILE") EXCEPT
                    !.awaiting[r] = "analyze"])

\* The promise of analyzeVideo settles: with the analysis, or rejected.
AnalyzeVideoSettles ==
  /\ app.analyzing
  /\ \E ok \in BOOLEAN : app' = HandleAnalyzeAnalyzed(app, ok, 1)
  /\ UNCHANGED <<run, budget, surface>>

\* the events of a compressVideo call
CompressStep(r) ==
  \/ LoadedMetadataCompress(r)
  \/ LoadedData(r)
  \/ PlayThen(r)
  \/ Tick(r)
  \/ Advance(r)
  \/ VideoEnded(r)
  \/ VideoPaused(r)
  \/ VideoError(r)
  \/ EndTimeout(r)
  \/ DataAvailable(r)
  \/ RecorderStopped(r)

NextAnalyze ==
  \/ Upload
  \/ ClickAnalyze
  \/ AnalyzeVideoSettles
  \/ \E r \in Runs : CompressStep(r)

\* The App as mounted, and the file the user is going to choose.
InitAnalyze ==
  /\ app = AppMounted
  /\ \E i \in CompressInputs :
       run = [r \in Runs |-> IF r = 1 THEN i ELSE Off]
  /\ budget = [ticks |-> MaxTicks, chunks |-> MaxChunks]
  /\ surface = NoSurface

SpecAnalyze == InitAnalyze /\ [][NextAnalyze]_vars

\* the moves of status the analyze handler may make (IDLE to IDLE is
\* handleFileUpload's)
StatusMoves ==
  { <<"IDLE", "IDLE">>, <<"IDLE", "READING_FILE">>,
    <<"READING_FILE", "ANALYZING">>, <<"ANALYZING", "COMPLETED">>,
    <<"READING_FILE", "ERROR">>, <<"ANALYZING", "ERROR">> }

\* C25: status moves only IDLE -> READING_FILE -> ANALYZING -> COMPLETED, or
\* to ERROR from READING_FILE or ANALYZING; analyzeVideo has been called
\* only if compressVideo resolved, and with the value it resolved with;
\* COMPLETED comes with the result stored; a rejection of compressVideo or
\* of analyzeVideo leaves status ERROR, with no result.
C25_StatusMoves ==
  LET s == run[1]
      st == app.status
      called == app.processFile # NoResult
  IN  /\ \A i \in 1..(Len(st) - 1) : <<st[i], st[i + 1]>> \in StatusMoves
      /\ called <=> (\E i \in 1..Len(st) : st[i] = "ANALYZING")
      /\ called => s.promise = "resolved" /\ app.processFile = s.result
      /\ Status(app) = "ANALYZING" <=> app.analyzing
      /\ Status(app) = "COMPLETED" <=> app.result # 0
      /\ s.promise = "rejected" => Status(app) = "ERROR"
      /\ s.promise = "resolved" =>
           Status(app) \in {"ANALYZING", "COMPLETED", "ERROR"}
      /\ (s.called /\ s.promise = "pending") =>
           Status(app) = "READING_FILE"

\* A file at the threshold was compressed into a blob, the blob was given
\* to analyzeVideo and the analysis is stored.
C25_Witness ==
  /\ app.status = <<"IDLE", "IDLE", "READING_FILE", "ANALYZING", "COMPLETED">>
  /\ run[1].result.kind = "blob" /\ app.processFile = run[1].result
  /\ app.result # 0

=============================================================================
